---- MODULE Spec2Model ----
(***************************************************************************)
(* State/view synchronisation of the TV-show browser (shows listing,       *)
(* episodes listing, fetch gateway and episode cache).                     *)
(*                                                                         *)
(* Text is modelled as a sequence of one-character strings, so that        *)
(* toLowerCase, trim, includes and the markup stripping are computed.      *)
(* The event loop is modelled by two queues: `waiters` holds the async     *)
(* handlers suspended at an await on a pending request, `microtasks` the   *)
(* continuations made runnable by a settled request; a user event or a     *)
(* transport completion (a macrotask) only starts when `microtasks` is     *)
(* empty.  The page's HTML is not part of the sources: the controls are    *)
(* taken to exist, the selects to start without options, the inputs empty  *)
(* and the shows toolbar visible.                                          *)
(***************************************************************************)
EXTENDS Naturals, Integers, Sequences, FiniteSets, TLC

VARIABLES state, dom, fetchCache, waiters, microtasks, started,
          transportCalls, cacheWrites

vars == <<state, dom, fetchCache, waiters, microtasks, started,
          transportCalls, cacheWrites>>

(***************************************************************************)
(* Bounds                                                                  *)
(***************************************************************************)
\* largest number of async handlers suspended at an await at the same time
MaxWaiters == 2

(***************************************************************************)
(* The remote service: what the two resources answer when they succeed.    *)
(***************************************************************************)
ShowsPayload ==
  << [id |-> 1, name |-> <<"Z","e","d">>,
      summary |-> <<"<","p",">","o","d","d","<","/","p",">">>,
      genres |-> << <<"D","r","a","m","a">> >>],
     [id |-> 2, name |-> <<"a","m","y">>,
      summary |-> <<>>,
      genres |-> << <<"S","c","i">>, <<"F","i">> >>] >>

ShowIds == {ShowsPayload[i].id : i \in 1..Len(ShowsPayload)}

EpisodesPayload(id) ==
  CASE id = 1 ->
         << [id |-> 11, season |-> 1, number |-> 1, name |-> <<"P","i","l","o","t">>,
             summary |-> <<"<","p",">","a"," ","b","<","/","p",">">>],
            [id |-> 12, season |-> 1, number |-> 2, name |-> <<"T","w","o">>,
             summary |-> <<>>] >>
    [] id = 2 ->
         << [id |-> 21, season |-> 12, number |-> 3, name |-> <<"U","p">>,
             summary |-> <<"<","i",">","t","o","p","<","/","i",">">>] >>
    [] OTHER -> << >>

\* what the user can type into the two search inputs
ShowSearchTexts == { <<>>, <<"Z">> }
EpisodeSearchTexts == { <<>>, <<"P","i">>, <<"o"," ">> }

(***************************************************************************)
(* Text helpers                                                            *)
(***************************************************************************)
Lower(c) ==
  CASE c = "A" -> "a" [] c = "B" -> "b" [] c = "D" -> "d" [] c = "F" -> "f"
    [] c = "P" -> "p" [] c = "S" -> "s" [] c = "T" -> "t" [] c = "U" -> "u"
    [] c = "Z" -> "z" [] c = "E" -> "e" [] c = "O" -> "o" [] OTHER -> c

toLowerCase(s) == [i \in 1..Len(s) |-> Lower(s[i])]

RECURSIVE trim(_)
trim(s) ==
  IF s = <<>> THEN <<>>
  ELSE IF Head(s) = " " THEN trim(Tail(s))
  ELSE IF s[Len(s)] = " " THEN trim(SubSeq(s, 1, Len(s) - 1))
  ELSE s

includes(hay, needle) ==
  \E i \in 0..(Len(hay) - Len(needle)) :
     SubSeq(hay, i + 1, i + Len(needle)) = needle

RECURSIVE StripTags(_, _)
StripTags(s, inTag) ==
  IF s = <<>> THEN <<>>
  ELSE IF inTag
       THEN StripTags(Tail(s), Head(s) # ">")
       ELSE IF Head(s) = "<"
            THEN StripTags(Tail(s), TRUE)
            ELSE <<Head(s)>> \o StripTags(Tail(s), FALSE)

extractText(htmlString) ==
  IF htmlString = <<>> THEN <<>> ELSE StripTags(htmlString, FALSE)

RECURSIVE join(_)
join(parts) ==
  IF parts = <<>> THEN <<>>
  ELSE IF Len(parts) = 1 THEN parts[1]
  ELSE parts[1] \o <<" ">> \o join(Tail(parts))

PadStart2(n) == IF n < 10 THEN "0" \o ToString(n) ELSE ToString(n)

formatEpisodeCode(seasonNumber, episodeNumber) ==
  "S" \o PadStart2(seasonNumber) \o "-E" \o PadStart2(episodeNumber)

(***************************************************************************)
(* fetchTVShows: case-insensitive ordering of the shows by name            *)
(***************************************************************************)
Rank(c) ==
  CASE c = "a" -> 1 [] c = "b" -> 2 [] c = "d" -> 4 [] c = "e" -> 5
    [] c = "f" -> 6 [] c = "h" -> 8 [] c = "i" -> 9 [] c = "l" -> 12 [] c = "m" -> 13
    [] c = "o" -> 15 [] c = "p" -> 16 [] c = "q" -> 17 [] c = "s" -> 19
    [] c = "t" -> 20 [] c = "u" -> 21 [] c = "w" -> 23 [] c = "y" -> 25
    [] c = "z" -> 26 [] OTHER -> 0

RECURSIVE CompareFolded(_, _)
CompareFolded(a, b) ==
  IF a = <<>> THEN (IF b = <<>> THEN 0 ELSE -1)
  ELSE IF b = <<>> THEN 1
  ELSE IF Rank(Head(a)) < Rank(Head(b)) THEN -1
  ELSE IF Rank(Head(a)) > Rank(Head(b)) THEN 1
  ELSE CompareFolded(Tail(a), Tail(b))

\* a comparison by code units: every capital sorts before every small letter
localeCompareCodeUnits(first, second) ==
  LET key(name) == [k \in 1..Len(name) |->
                      IF Lower(name[k]) # name[k] THEN Rank(Lower(name[k]))
                      ELSE 100 + Rank(name[k])]
      RECURSIVE cmp(_, _)
      cmp(a, b) ==
        IF a = <<>> THEN (IF b = <<>> THEN 0 ELSE -1)
        ELSE IF b = <<>> THEN 1
        ELSE IF Head(a) < Head(b) THEN -1
        ELSE IF Head(a) > Head(b) THEN 1
        ELSE cmp(Tail(a), Tail(b))
  IN  cmp(key(first), key(second))

\* first.name.localeCompare(second.name, 'en', {sensitivity: 'base'})
localeCompare(first, second) == CompareFolded(toLowerCase(first), toLowerCase(second))

RECURSIVE InsertSorted(_, _)
InsertSorted(sorted, x) ==
  IF sorted = <<>> THEN <<x>>
  ELSE IF localeCompare(x.name, sorted[Len(sorted)].name) >= 0
       THEN Append(sorted, x)
       ELSE Append(InsertSorted(SubSeq(sorted, 1, Len(sorted) - 1), x),
                   sorted[Len(sorted)])

RECURSIVE SortByName(_)
SortByName(data) ==
  IF data = <<>> THEN <<>>
  ELSE InsertSorted(SortByName(SubSeq(data, 1, Len(data) - 1)), data[Len(data)])

ShowsUrl == "https://api.tvmaze.com/shows"
EpisodesUrl(tvShowID) == ShowsUrl \o "/" \o ToString(tvShowID) \o "/episodes"
Urls == {ShowsUrl} \cup {EpisodesUrl(id) : id \in ShowIds}

(***************************************************************************)
(* Rendering.  `s` is the application state record, `d` the document:      *)
(* root (what #root shows), the two toolbars, the two selects, the two     *)
(* search inputs and the two count texts.                                  *)
(***************************************************************************)
Ids(list) == [i \in 1..Len(list) |-> list[i].id]
OptionValues(list) == <<"">> \o [i \in 1..Len(list) |-> ToString(list[i].id)]
OptionSet(options) == {options[i] : i \in 1..Len(options)}

\* assigning select.value: a value that is no option leaves nothing selected
SelectValue(options, value) == IF value \in OptionSet(options) THEN value ELSE ""

RootOf(kind, text, title, list) ==
  [kind |-> kind, text |-> text, title |-> title, list |-> list]

renderStatus(s, d) ==
  IF s.status = "loading"
  THEN [d EXCEPT !.root = RootOf("status", "Loading...", <<>>, <<>>)]
  ELSE IF s.status = "error"
       THEN [d EXCEPT !.root =
               RootOf("status",
                      IF s.errorMessage # "" THEN s.errorMessage
                      ELSE "An error occurred while loading episodes.",
                      <<>>, <<>>)]
       ELSE d

populateTVShowSelectControl(d, tvShows) ==
  [d EXCEPT !.showSelectOptions = OptionValues(tvShows),
            !.showSelectValue = ""]

populateEpisodeSelectControl(d, episodes, selectedEpisodeId) ==
  [d EXCEPT !.episodeSelectOptions = OptionValues(episodes),
            !.episodeSelectValue = SelectValue(OptionValues(episodes), selectedEpisodeId)]

\* a match that does not look at the genres
ShowMatchesNoGenres(show, searchText) ==
  \/ searchText = <<>>
  \/ includes(toLowerCase(show.name), searchText)
  \/ includes(toLowerCase(extractText(show.summary)), searchText)

ShowMatches(show, searchText) ==
  \/ searchText = <<>>
  \/ includes(toLowerCase(show.name), searchText)
  \/ includes(toLowerCase(extractText(show.summary)), searchText)
  \/ includes(toLowerCase(join(show.genres)), searchText)

FilterShows(shows, showSearchText) ==
  LET searchText == trim(toLowerCase(showSearchText))
  IN  SelectSeq(shows, LAMBDA show : ShowMatches(show, searchText))

EpisodeMatches(episode, searchText) ==
  \/ includes(toLowerCase(episode.name), searchText)
  \/ includes(toLowerCase(extractText(episode.summary)), searchText)

\* a filter in which the search text takes precedence over the selection
FilterEpisodesSearchFirst(episodes, episodeSearchText, selectedEpisodeId) ==
  LET searchText == trim(toLowerCase(episodeSearchText))
  IN  IF searchText # <<>>
      THEN SelectSeq(episodes, LAMBDA e : EpisodeMatches(e, searchText))
      ELSE IF selectedEpisodeId # ""
           THEN SelectSeq(episodes, LAMBDA e : ToString(e.id) = selectedEpisodeId)
           ELSE episodes

FilterEpisodes(episodes, episodeSearchText, selectedEpisodeId) ==
  LET searchText == trim(toLowerCase(episodeSearchText))
  IN  IF selectedEpisodeId # ""
      THEN SelectSeq(episodes, LAMBDA e : ToString(e.id) = selectedEpisodeId)
      ELSE IF searchText # <<>>
           THEN SelectSeq(episodes, LAMBDA e : EpisodeMatches(e, searchText))
           ELSE episodes

CountLabel(n) ==
  IF n = 1 THEN "Found 1 show" ELSE "Found " \o ToString(n) \o " shows"

\* a shows view that does not empty the root before adding the cards
renderShowsViewAppend(s, d) ==
  LET filteredShows == FilterShows(s.shows, s.showSearchText)
  IN  [d EXCEPT !.showSearchInput = s.showSearchText,
                !.showsCount = CountLabel(Len(filteredShows)),
                !.root = RootOf("shows", "", <<>>,
                                (IF d.root.kind = "shows" THEN d.root.list ELSE <<>>)
                                  \o Ids(filteredShows))]

renderShowsView(s, d) ==
  LET filteredShows == FilterShows(s.shows, s.showSearchText)
  IN  [d EXCEPT !.showSearchInput = s.showSearchText,
                !.showsCount = CountLabel(Len(filteredShows)),
                !.root = RootOf("shows", "", <<>>, Ids(filteredShows))]

CachedEpisodes(s, key) ==
  IF key \in DOMAIN s.episodesByShowId THEN s.episodesByShowId[key] ELSE <<>>

ShowTitle(s, showId) ==
  LET found == SelectSeq(s.shows, LAMBDA c : ToString(c.id) = showId)
  IN  IF found # <<>> THEN found[1].name
      ELSE <<"E","p","i","s","o","d","e","s">>

renderEpisodesView(s, d) ==
  IF s.selectedShowId = ""
  THEN [d EXCEPT !.root = RootOf("prompt", "Select a show to view episodes.", <<>>, <<>>)]
  ELSE
    LET episodes == CachedEpisodes(s, s.selectedShowId)
        d1 == populateEpisodeSelectControl(d, episodes, s.selectedEpisodeId)
        filteredEpisodes ==
          FilterEpisodes(episodes, s.episodeSearchText, s.selectedEpisodeId)
    IN  [d1 EXCEPT
           !.episodeSearchInput = s.episodeSearchText,
           !.episodeSelectValue = SelectValue(d1.episodeSelectOptions, s.selectedEpisodeId),
           !.searchResults = "Displaying " \o ToString(Len(filteredEpisodes))
                             \o " of " \o ToString(Len(episodes)) \o " episodes",
           !.root = RootOf("episodes", "", ShowTitle(s, s.selectedShowId),
                           Ids(filteredEpisodes))]

\* a render that short-circuits while loading only
renderGateLoadingOnly(s, d) ==
  IF s.status = "loading"
  THEN renderStatus(s, d)
  ELSE LET d1 == [d EXCEPT !.showsToolbarHidden = (s.currentView # "shows"),
                           !.episodesToolbarHidden = (s.currentView # "episodes")]
       IN  IF s.currentView = "shows" THEN renderShowsView(s, d1)
           ELSE renderEpisodesView(s, d1)

render(s, d) ==
  IF s.status \in {"loading", "error"}
  THEN renderStatus(s, d)
  ELSE LET d1 == [d EXCEPT !.showsToolbarHidden = (s.currentView # "shows"),
                           !.episodesToolbarHidden = (s.currentView # "episodes")]
       IN  IF s.currentView = "shows" THEN renderShowsView(s, d1)
           ELSE renderEpisodesView(s, d1)

(***************************************************************************)
(* The gateway: getJson and its map of requests                            *)
(***************************************************************************)
\* getJson without its look-up: every call issues a transport call
GetJsonHitNever(url) == FALSE

\* fetchCache.has(url)
GetJsonHit(url) == url \in DOMAIN fetchCache

\* fetchCache.set(url, request): the request starts pending
RequestSet(url) == (url :> "pending") @@ fetchCache

\* a gateway that forgets a request as soon as it settles
SettledCacheDropped(url, outcome) ==
  [u \in (DOMAIN fetchCache) \ {url} |-> fetchCache[u]]

\* the request promise settles; the map keeps holding it
SettledCache(url, outcome) == [fetchCache EXCEPT ![url] = outcome]

\* getJson(url) as seen by its caller: the map and the transport-call count
GetJsonCache(url) == IF GetJsonHit(url) THEN fetchCache ELSE RequestSet(url)
GetJsonCalls(url) ==
  IF GetJsonHit(url) THEN transportCalls
  ELSE [transportCalls EXCEPT ![url] = @ + 1]

\* an async handler awaiting getJson(url): suspended while the request is
\* pending, resumed in a microtask when it is already settled
Await(w, cache) ==
  IF cache[w.url] = "pending"
  THEN /\ waiters' = Append(waiters, w)
       /\ microtasks' = microtasks
  ELSE /\ waiters' = waiters
       /\ microtasks' = Append(microtasks, w)

\* an event loop that starts a macrotask while continuations are runnable
EventLoopNeverBusy == TRUE

EventLoopIdle == microtasks = <<>>

(***************************************************************************)
(* Initial state: the module has been evaluated, window.onload not fired   *)
(***************************************************************************)
Init ==
  /\ state = [status |-> "idle", errorMessage |-> "", currentView |-> "shows",
              shows |-> <<>>, showSearchText |-> <<>>,
              episodesByShowId |-> <<>>, selectedShowId |-> "",
              episodeSearchText |-> <<>>, selectedEpisodeId |-> ""]
  /\ dom = [root |-> RootOf("blank", "", <<>>, <<>>),
              searchResults |-> "", showsCount |-> "",
              showsToolbarHidden |-> FALSE, episodesToolbarHidden |-> TRUE,
              showSelectOptions |-> <<>>, showSelectValue |-> "",
              episodeSelectOptions |-> <<>>, episodeSelectValue |-> "",
              showSearchInput |-> <<>>, episodeSearchInput |-> <<>>]
  /\ fetchCache = <<>>
  /\ waiters = <<>>
  /\ microtasks = <<>>
  /\ started = FALSE
  /\ transportCalls = [u \in Urls |-> 0]
  /\ cacheWrites = [id \in ShowIds |-> 0]

(***************************************************************************)
(* setup, up to its await                                                  *)
(***************************************************************************)
\* a setup that shows the loading status but never asks for the shows
SetupNoFetch ==
  /\ ~started
  /\ EventLoopIdle
  /\ started' = TRUE
  /\ state' = [state EXCEPT !.status = "loading"]
  /\ dom' = renderStatus(state', dom)
  /\ UNCHANGED <<fetchCache, transportCalls, waiters, microtasks, cacheWrites>>

Setup ==
  /\ ~started
  /\ EventLoopIdle
  /\ started' = TRUE
  /\ state' = [state EXCEPT !.status = "loading"]
  /\ dom' = renderStatus(state', dom)
  /\ fetchCache' = GetJsonCache(ShowsUrl)
  /\ transportCalls' = GetJsonCalls(ShowsUrl)
  /\ Await([kind |-> "setup", id |-> 0, url |-> ShowsUrl], fetchCache')
  /\ UNCHANGED cacheWrites

(***************************************************************************)
(* Transport completions (macrotasks): the request promise of getJson      *)
(* settles and every handler awaiting it becomes runnable, in the order    *)
(* in which the handlers started to wait.                                  *)
(***************************************************************************)
Awaiting(url) == SelectSeq(waiters, LAMBDA w : w.url = url)
NotAwaiting(url) == SelectSeq(waiters, LAMBDA w : w.url # url)

Settle(url, outcome) ==
  /\ url \in DOMAIN fetchCache
  /\ fetchCache[url] = "pending"
  /\ fetchCache' = SettledCache(url, outcome)
  /\ microtasks' = Awaiting(url)
  /\ waiters' = NotAwaiting(url)
  /\ UNCHANGED <<state, dom, started, transportCalls, cacheWrites>>

\* response.ok and response.json() succeeds
TransportSucceeds(url) ==
  /\ EventLoopIdle
  /\ Settle(url, "resolved")

\* !response.ok (getJson throws) or the transport or response.json() rejects
TransportFails(url) ==
  /\ EventLoopIdle
  /\ Settle(url, "rejected")

(***************************************************************************)
(* setup after its await                                                   *)
(***************************************************************************)
\* setup forgetting to leave the loading status
SetupLoadedStillLoading(s, tvShows) ==
  [s EXCEPT !.shows = tvShows, !.currentView = "shows"]

\* a setup that lands in the episodes view
SetupLoadedEpisodesView(s, tvShows) ==
  [s EXCEPT !.shows = tvShows, !.status = "loaded", !.currentView = "episodes"]

SetupLoaded(s, tvShows) ==
  [s EXCEPT !.shows = tvShows, !.status = "loaded", !.currentView = "shows"]

\* a catch that records the message but leaves the status alone
SetupFailedStatusKept(s) ==
  [s EXCEPT !.errorMessage = "Unable to load shows. Please try again."]

SetupFailed(s) ==
  [s EXCEPT !.status = "error",
            !.errorMessage = "Unable to load shows. Please try again."]

SetupResumes ==
  /\ microtasks # <<>>
  /\ Head(microtasks).kind = "setup"
  /\ fetchCache[ShowsUrl] = "resolved"
  /\ state' = SetupLoaded(state, SortByName(ShowsPayload))
  /\ dom' = render(state', populateTVShowSelectControl(dom, state'.shows))
  /\ microtasks' = Tail(microtasks)
  /\ UNCHANGED <<fetchCache, waiters, started, transportCalls, cacheWrites>>

SetupCatches ==
  /\ microtasks # <<>>
  /\ Head(microtasks).kind = "setup"
  /\ fetchCache[ShowsUrl] = "rejected"
  /\ state' = SetupFailed(state)
  /\ dom' = renderStatus(state', dom)
  /\ microtasks' = Tail(microtasks)
  /\ UNCHANGED <<fetchCache, waiters, started, transportCalls, cacheWrites>>

(***************************************************************************)
(* openShow                                                                *)
(***************************************************************************)
\* an openShow that keeps the episode search of the show left behind
OpenShowEnterKeepSearch(s, tvShowId) ==
  [s EXCEPT !.selectedShowId = ToString(tvShowId),
            !.currentView = "episodes",
            !.selectedEpisodeId = ""]

OpenShowEnter(s, tvShowId) ==
  [s EXCEPT !.selectedShowId = ToString(tvShowId),
            !.currentView = "episodes",
            !.selectedEpisodeId = "",
            !.episodeSearchText = <<>>]

\* const cachedEpisodes = state.episodesByShowId[tvShowId]; an array is truthy
IsCached(s, tvShowId) == ToString(tvShowId) \in DOMAIN s.episodesByShowId

\* a commit that brings the user back to the episodes view
OpenShowCommitReenter(s, tvShowId, episodes) ==
  [s EXCEPT !.episodesByShowId = (ToString(tvShowId) :> episodes) @@ @,
            !.status = "loaded",
            !.currentView = "episodes"]

\* a commit that adds the fetched episodes to the entry instead of setting it
OpenShowCommitConcat(s, tvShowId, episodes) ==
  [s EXCEPT !.episodesByShowId =
              (ToString(tvShowId) :> (CachedEpisodes(s, ToString(tvShowId)) \o episodes)) @@ @,
            !.status = "loaded"]

OpenShowCommit(s, tvShowId, episodes) ==
  [s EXCEPT !.episodesByShowId = (ToString(tvShowId) :> episodes) @@ @,
            !.status = "loaded"]

\* the end of openShow: populateEpisodeSelectControl(episodes); render()
OpenShowFinish(s, d, tvShowId) ==
  render(s, populateEpisodeSelectControl(d, CachedEpisodes(s, ToString(tvShowId)), ""))

OpenShow(tvShowId) ==
  LET s1 == OpenShowEnter(state, tvShowId)
      d1 == [dom EXCEPT !.showSelectValue =
                          SelectValue(dom.showSelectOptions, ToString(tvShowId))]
      url == EpisodesUrl(tvShowId)
  IN  IF IsCached(s1, tvShowId)
      THEN /\ state' = s1
           /\ dom' = OpenShowFinish(s1, d1, tvShowId)
           /\ UNCHANGED <<fetchCache, waiters, microtasks, transportCalls>>
      ELSE /\ Len(waiters) < MaxWaiters
           /\ state' = [s1 EXCEPT !.status = "loading"]
           /\ dom' = renderStatus(state', d1)
           /\ fetchCache' = GetJsonCache(url)
           /\ transportCalls' = GetJsonCalls(url)
           /\ Await([kind |-> "openShow", id |-> tvShowId, url |-> url], fetchCache')

\* the resumed openShow: the awaited request resolved
OpenShowResumes ==
  /\ microtasks # <<>>
  /\ Head(microtasks).kind = "openShow"
  /\ fetchCache[Head(microtasks).url] = "resolved"
  /\ LET tvShowId == Head(microtasks).id
     IN  /\ state' = OpenShowCommit(state, tvShowId, EpisodesPayload(tvShowId))
         /\ dom' = OpenShowFinish(state', dom, tvShowId)
         /\ cacheWrites' = [cacheWrites EXCEPT ![tvShowId] = @ + 1]
  /\ microtasks' = Tail(microtasks)
  /\ UNCHANGED <<fetchCache, waiters, started, transportCalls>>

\* the resumed openShow: the awaited request rejected, the await throws and
\* nothing catches it
OpenShowThrows ==
  /\ microtasks # <<>>
  /\ Head(microtasks).kind = "openShow"
  /\ fetchCache[Head(microtasks).url] = "rejected"
  /\ microtasks' = Tail(microtasks)
  /\ UNCHANGED <<state, dom, fetchCache, waiters, started, transportCalls, cacheWrites>>

(***************************************************************************)
(* Listeners of attachListeners and of the show cards                      *)
(***************************************************************************)
Number(value) == CHOOSE n \in ShowIds : ToString(n) = value

ShowSearchDidChange(value) ==
  /\ started /\ EventLoopIdle
  /\ value # dom.showSearchInput
  /\ state' = [state EXCEPT !.showSearchText = value]
  /\ dom' = render(state', [dom EXCEPT !.showSearchInput = value])
  /\ UNCHANGED <<fetchCache, waiters, microtasks, started, transportCalls, cacheWrites>>

ShowSelectDidChange(value) ==
  /\ started /\ EventLoopIdle
  /\ value \in OptionSet(dom.showSelectOptions)
  /\ value # dom.showSelectValue
  /\ IF value = ""
     THEN /\ dom' = [dom EXCEPT !.showSelectValue = value]
          /\ UNCHANGED <<state, fetchCache, waiters, microtasks, transportCalls>>
     ELSE OpenShow(Number(value))
  /\ UNCHANGED <<started, cacheWrites>>

\* click or Enter/Space on a show card, or click on its title button
ShowCardActivated(id) ==
  /\ EventLoopIdle
  /\ dom.root.kind = "shows"
  /\ id \in OptionSet(dom.root.list)
  /\ OpenShow(id)
  /\ UNCHANGED <<started, cacheWrites>>

EpisodeSelectionState(s, value) == [s EXCEPT !.selectedEpisodeId = value]

episodeSelectionDidChange(value) ==
  /\ started /\ EventLoopIdle
  /\ value \in OptionSet(dom.episodeSelectOptions)
  /\ value # dom.episodeSelectValue
  /\ state' = EpisodeSelectionState(state, value)
  /\ dom' = render(state', [dom EXCEPT !.episodeSelectValue = value])
  /\ UNCHANGED <<fetchCache, waiters, microtasks, started, transportCalls, cacheWrites>>

\* a search handler that keeps the explicit selection
EpisodeSearchStateKeep(s, value) == [s EXCEPT !.episodeSearchText = value]

EpisodeSearchState(s, value) ==
  [s EXCEPT !.episodeSearchText = value, !.selectedEpisodeId = ""]

episodeSearchDidChange(value) ==
  /\ started /\ EventLoopIdle
  /\ value # dom.episodeSearchInput
  /\ state' = EpisodeSearchState(state, value)
  /\ dom' = render(state', [dom EXCEPT !.episodeSearchInput = value,
                                       !.episodeSelectValue = ""])
  /\ UNCHANGED <<fetchCache, waiters, microtasks, started, transportCalls, cacheWrites>>

\* a back handler that also drops the show it leaves
BackStateReset(s) ==
  [s EXCEPT !.currentView = "shows", !.selectedShowId = "",
            !.episodesByShowId = <<>>]

BackState(s) == [s EXCEPT !.currentView = "shows"]

BackToShows ==
  /\ started /\ EventLoopIdle
  /\ state' = BackState(state)
  /\ dom' = render(state', dom)
  /\ UNCHANGED <<fetchCache, waiters, microtasks, started, transportCalls, cacheWrites>>

\* every value an option of the two selects can carry
ShowOptionValues == OptionSet(OptionValues(ShowsPayload))
EpisodeOptionValues ==
  UNION {OptionSet(OptionValues(EpisodesPayload(id))) : id \in ShowIds}

Next ==
  \/ Setup
  \/ \E url \in Urls : TransportSucceeds(url)
  \/ \E url \in Urls : TransportFails(url)
  \/ SetupResumes
  \/ SetupCatches
  \/ OpenShowResumes
  \/ OpenShowThrows
  \/ \E value \in ShowSearchTexts : ShowSearchDidChange(value)
  \/ \E value \in ShowOptionValues : ShowSelectDidChange(value)
  \/ \E id \in ShowIds : ShowCardActivated(id)
  \/ \E value \in EpisodeOptionValues : episodeSelectionDidChange(value)
  \/ \E value \in EpisodeSearchTexts : episodeSearchDidChange(value)
  \/ BackToShows

Spec == Init /\ [][Next]_vars

(***************************************************************************)
(* The filters and the ordering on arbitrary data: the same handlers, with *)
(* the answer of the service and the typed texts drawn from larger sets.   *)
(* A behaviour starts where a request has just resolved with `data` and    *)
(* the handler that awaited it is about to resume; the user may have typed *)
(* or picked something while it was loading.                               *)
(***************************************************************************)
\* longest list of shows or episodes the service answers with
MaxListLen == 3

ShowPool ==
  { [id |-> 1, name |-> <<"Z","e","t","a">>,
     summary |-> <<"<","p",">","o","d","d","<","/","p",">">>,
     genres |-> << <<"D","r","a","m","a">> >>],
    [id |-> 2, name |-> <<"a","l","p","h","a">>,
     summary |-> <<>>,
     genres |-> << <<"S","c","i">>, <<"F","i">> >>],
    [id |-> 3, name |-> <<"B","e","t","a">>,
     summary |-> <<"<","b",">","Z","o","o","<","/","b",">">>,
     genres |-> << >>],
    [id |-> 4, name |-> <<"A","l","p","h","a">>,
     summary |-> <<"<","i",">","t","o","p","<","/","i",">">>,
     genres |-> << <<"D","r","a","m","a">> >>] }

EpisodePool ==
  { [id |-> 11, season |-> 1, number |-> 1, name |-> <<"P","i","l","o","t">>,
     summary |-> <<"<","p",">","a"," ","b","<","/","p",">">>],
    [id |-> 12, season |-> 1, number |-> 2, name |-> <<"T","w","o">>,
     summary |-> <<"<","p",">","O","w","l","<","/","p",">">>],
    [id |-> 21, season |-> 12, number |-> 3, name |-> <<"U","p">>,
     summary |-> <<"<","i",">","t","o","p","<","/","i",">">>] }

\* the lists without repetition of at most MaxListLen elements of a pool
ListsOf(pool) ==
  UNION { { f \in [1..n -> pool] : \A i, j \in 1..n : f[i] = f[j] => i = j }
          : n \in 0..MaxListLen }

PureShowTexts ==
  { <<>>, <<" ">>, <<"E","T">>, <<"p">>, <<"i"," ","f">>, <<"o","d","d"," ">>, <<"z","z">> }
PureEpisodeTexts ==
  { <<>>, <<" ">>, <<"P","i"," ">>, <<"p">>, <<"a"," ","b">>, <<"z","z">> }
PureSelectedIds == { "", "12", "99" }

BlankDom ==
  [root |-> RootOf("blank", "", <<>>, <<>>),
   searchResults |-> "", showsCount |-> "",
   showsToolbarHidden |-> FALSE, episodesToolbarHidden |-> TRUE,
   showSelectOptions |-> <<>>, showSelectValue |-> "",
   episodeSelectOptions |-> <<>>, episodeSelectValue |-> "",
   showSearchInput |-> <<>>, episodeSearchInput |-> <<>>]

LoadingState ==
  [status |-> "loading", errorMessage |-> "", currentView |-> "shows",
   shows |-> <<>>, showSearchText |-> <<>>,
   episodesByShowId |-> <<>>, selectedShowId |-> "",
   episodeSearchText |-> <<>>, selectedEpisodeId |-> ""]

\* setup is about to resume with the fetched shows `data`; `text` was typed
\* into the show search meanwhile
PureInitShows ==
  \E data \in ListsOf(ShowPool), text \in PureShowTexts :
    /\ state = [LoadingState EXCEPT !.showSearchText = text]
    /\ dom = renderStatus(state, [BlankDom EXCEPT !.showSearchInput = text])
    /\ fetchCache = (ShowsUrl :> "resolved")
    /\ microtasks = << [kind |-> "setup", id |-> 0, url |-> ShowsUrl, data |-> data] >>
    /\ transportCalls = [u \in Urls |-> IF u = ShowsUrl THEN 1 ELSE 0]

\* openShow(1) is about to resume with the fetched episodes `data`; `text`
\* was typed into the episode search and `selected` picked meanwhile
PureInitEpisodes ==
  \E data \in ListsOf(EpisodePool), text \in PureEpisodeTexts,
     selected \in PureSelectedIds :
    /\ state = [LoadingState EXCEPT !.shows = SortByName(ShowsPayload),
                                   !.currentView = "episodes",
                                   !.selectedShowId = "1",
                                   !.episodeSearchText = text,
                                   !.selectedEpisodeId = selected]
    /\ dom = renderStatus(state,
               [populateTVShowSelectControl(BlankDom, state.shows)
                  EXCEPT !.showSelectValue = "1", !.episodeSearchInput = text])
    /\ fetchCache = (ShowsUrl :> "resolved") @@ (EpisodesUrl(1) :> "resolved")
    /\ microtasks = << [kind |-> "openShow", id |-> 1, url |-> EpisodesUrl(1),
                        data |-> data] >>
    /\ transportCalls = [u \in Urls |-> IF u \in {ShowsUrl, EpisodesUrl(1)} THEN 1 ELSE 0]

PureInit ==
  /\ PureInitShows \/ PureInitEpisodes
  /\ waiters = <<>>
  /\ started = TRUE
  /\ cacheWrites = [id \in ShowIds |-> 0]

\* setup resumes: the fetched shows are ordered, stored and rendered
PureSetupResumes ==
  /\ microtasks # <<>>
  /\ Head(microtasks).kind = "setup"
  /\ state' = SetupLoaded(state, SortByName(Head(microtasks).data))
  /\ dom' = render(state', populateTVShowSelectControl(dom, state'.shows))
  /\ microtasks' = Tail(microtasks)
  /\ UNCHANGED <<fetchCache, waiters, started, transportCalls, cacheWrites>>

\* openShow resumes: the fetched episodes are stored and rendered
PureOpenShowResumes ==
  /\ microtasks # <<>>
  /\ Head(microtasks).kind = "openShow"
  /\ LET tvShowId == Head(microtasks).id
     IN  /\ state' = OpenShowCommit(state, tvShowId, Head(microtasks).data)
         /\ dom' = OpenShowFinish(state', dom, tvShowId)
         /\ cacheWrites' = [cacheWrites EXCEPT ![tvShowId] = @ + 1]
  /\ microtasks' = Tail(microtasks)
  /\ UNCHANGED <<fetchCache, waiters, started, transportCalls>>

PureEpisodeOptionValues == {""} \cup {ToString(e.id) : e \in EpisodePool}

PureNext ==
  \/ PureSetupResumes
  \/ PureOpenShowResumes
  \/ \E value \in PureShowTexts : ShowSearchDidChange(value)
  \/ \E value \in PureEpisodeTexts : episodeSearchDidChange(value)
  \/ \E value \in PureEpisodeOptionValues : episodeSelectionDidChange(value)

PureSpec == PureInit /\ [][PureNext]_vars

\* the event loop runs every continuation that a settled request has made
\* runnable
LiveSpec ==
  /\ Spec
  /\ WF_vars(SetupResumes) /\ WF_vars(SetupCatches)
  /\ WF_vars(OpenShowResumes) /\ WF_vars(OpenShowThrows)

\* the event loop runs every runnable continuation, and every transport
\* call that was issued eventually completes, with success or with failure
FairSpec ==
  /\ LiveSpec
  /\ \A url \in Urls : WF_vars(TransportSucceeds(url) \/ TransportFails(url))

(***************************************************************************)
(* Properties                                                              *)
(***************************************************************************)
Suspended(kind) == SelectSeq(waiters, LAMBDA w : w.kind = kind)

\* C1: for every show id the transport call for its episode URL is issued at
\* most once, whatever openShow calls are made (repeated, after back
\* navigation, or while an earlier fetch for the same id is pending).
C1_CacheCoherence ==
  \A id \in ShowIds : transportCalls[EpisodesUrl(id)] <= 1

\* two openShow calls for one show wait for the same, single transport call
C1_Witness ==
  \E id \in ShowIds :
     /\ Len(Awaiting(EpisodesUrl(id))) >= 2
     /\ transportCalls[EpisodesUrl(id)] = 1

\* C2 as claimed: concurrent openShow calls for one uncached show collapse
\* into one transport call and one assignment of episodesByShowId[id].
C2_OneTransportOneWrite ==
  \A id \in ShowIds :
     /\ transportCalls[EpisodesUrl(id)] <= 1
     /\ cacheWrites[id] <= 1

\* C2 amended: every resumed openShow finds exactly one transport call made
\* for its URL and assigns episodesByShowId[id] itself (one assignment per
\* waiting handler); an entry that an earlier handler has written keeps its
\* value.
C2_OneTransportSameWrite ==
  [][OpenShowResumes =>
       LET id == Head(microtasks).id
       IN  /\ transportCalls[EpisodesUrl(id)] = 1
           /\ cacheWrites'[id] = cacheWrites[id] + 1
           /\ IsCached(state', id)
           /\ \A key \in DOMAIN state.episodesByShowId :
                state'.episodesByShowId[key] = state.episodesByShowId[key]]_vars

\* two handlers that waited for the same request have both written the entry
C2_Witness ==
  \E id \in ShowIds :
     /\ cacheWrites[id] >= 2
     /\ transportCalls[EpisodesUrl(id)] = 1
     /\ IsCached(state, id)

\* the episodes a search for `text` alone selects
SearchFiltered(episodes, text) ==
  LET folded == trim(toLowerCase(text))
  IN  SelectSeq(episodes,
                LAMBDA e : \/ includes(toLowerCase(e.name), folded)
                           \/ includes(toLowerCase(StripTags(e.summary, FALSE)), folded))

\* C3: an episode-search event clears selectedEpisodeId in the same step and
\* the episode listing rendered by it is the search-filtered list of the
\* selected show's episodes, with nothing selected in the episode select.
C3_SearchClearsSelection ==
  [][\A value \in EpisodeSearchTexts :
       episodeSearchDidChange(value) =>
         /\ state'.selectedEpisodeId = ""
         /\ state'.episodeSearchText = value
         /\ (state'.status = "loaded" /\ state'.currentView = "episodes") =>
              /\ dom'.root.kind = "episodes"
              /\ dom'.root.list =
                   Ids(SearchFiltered(CachedEpisodes(state', state'.selectedShowId), value))
              /\ dom'.episodeSelectValue = ""]_vars

\* show 1 is open, "Pi" is searched and only the pilot is listed
C3_Witness ==
  /\ state.status = "loaded" /\ state.currentView = "episodes"
  /\ state.selectedShowId = "1"
  /\ state.episodeSearchText = <<"P","i">>
  /\ state.selectedEpisodeId = ""
  /\ dom.root.kind = "episodes" /\ dom.root.list = <<11>>

\* C4 as claimed: selectedEpisodeId and episodeSearchText are never both
\* non-empty.
C4_NeverBothNarrow ==
  ~(state.selectedEpisodeId # "" /\ state.episodeSearchText # <<>>)

\* C5 as claimed: an openShow resumed for a show that is no longer the
\* selected one (another show was opened, or the user went back) only
\* commits its episodes to the cache: status, view, selected show, episode
\* select and listing stay as they were.
C5_StaleResponseGuard ==
  [][(/\ OpenShowResumes
      /\ \/ state.selectedShowId # ToString(Head(microtasks).id)
         \/ state.currentView # "episodes") =>
       /\ IsCached(state', Head(microtasks).id)
       /\ state'.status = state.status
       /\ state'.currentView = state.currentView
       /\ state'.selectedShowId = state.selectedShowId
       /\ dom'.episodeSelectOptions = dom.episodeSelectOptions
       /\ dom'.root = dom.root]_vars

C7_FailuresSurfaced ==
  [][(SetupCatches \/ OpenShowThrows) =>
       /\ state'.status = "error"
       /\ state'.errorMessage # ""
       /\ dom'.root.kind = "status"
       /\ dom'.root.text = state'.errorMessage]_vars

NoHandlerSuspended == waiters = <<>> /\ microtasks = <<>>

\* C8 as claimed: a failed episode load leaves the shows and the cached
\* episodes alone, and afterwards (no request outstanding) going back
\* displays the filtered shows list and opening a cached show displays its
\* episodes.
C8_FailureScoped ==
  [][/\ OpenShowThrows =>
          /\ state'.shows = state.shows
          /\ state'.episodesByShowId = state.episodesByShowId
     /\ (BackToShows /\ NoHandlerSuspended /\ state.shows # <<>>) =>
          /\ dom'.root.kind = "shows"
          /\ dom'.root.list = Ids(FilterShows(state'.shows, state'.showSearchText))
     /\ \A id \in ShowIds :
          (/\ ShowSelectDidChange(ToString(id))
           /\ NoHandlerSuspended
           /\ IsCached(state, id)) =>
             /\ dom'.root.kind = "episodes"
             /\ dom'.root.list = Ids(state.episodesByShowId[ToString(id)])]_vars

\* C9 as claimed: the gateway's map only holds requests in flight.
C9_OnlyInFlight ==
  \A url \in DOMAIN fetchCache : fetchCache[url] = "pending"

\* C9 amended: the gateway's map keeps every request it was ever asked for:
\* an entry is never removed and a settled entry keeps its outcome.
C9_RequestsRetained ==
  [][\A url \in DOMAIN fetchCache :
       /\ url \in DOMAIN fetchCache'
       /\ fetchCache[url] # "pending" => fetchCache'[url] = fetchCache[url]]_vars

\* the shows request has completed, its result is in state.shows and the
\* map still holds it
C9_Witness ==
  /\ ShowsUrl \in DOMAIN fetchCache
  /\ fetchCache[ShowsUrl] = "resolved"
  /\ state.shows # <<>>

\* C10: startup goes from idle to loading with the status rendered; a
\* successful shows fetch gives status = loaded, view = shows, the fetched
\* shows in state.shows and the shows listing rendered; a failed one gives
\* status = error with a message, rendered; status never returns to idle.
C10_StartupProtocol ==
  [][/\ Setup =>
          /\ state.status = "idle"
          /\ state'.status = "loading"
          /\ dom'.root.kind = "status" /\ dom'.root.text = "Loading..."
     /\ SetupResumes =>
          /\ state'.status = "loaded"
          /\ state'.currentView = "shows"
          /\ Len(state'.shows) = Len(ShowsPayload)
          /\ OptionSet(state'.shows) = OptionSet(ShowsPayload)
          /\ dom'.showSelectOptions = OptionValues(state'.shows)
          /\ dom'.root.kind = "shows"
          /\ ~dom'.showsToolbarHidden
     /\ SetupCatches =>
          /\ state'.status = "error"
          /\ state'.errorMessage # ""
          /\ dom'.root.kind = "status"
          /\ dom'.root.text = state'.errorMessage
     /\ state.status # "idle" => state'.status # "idle"]_vars

\* startup has succeeded and the shows listing is displayed
C10_Witness ==
  /\ state.status = "loaded"
  /\ state.currentView = "shows"
  /\ Len(state.shows) = Len(ShowsPayload)
  /\ dom.root.kind = "shows"
  /\ Len(dom.root.list) = Len(ShowsPayload)

\* C11: in every reachable state errorMessage is non-empty only if
\* status = error.
C11_MessageOnlyOnError ==
  state.errorMessage # "" => state.status = "error"

\* the shows fetch has failed: status = error and the message is set
C11_Witness ==
  /\ state.status = "error"
  /\ state.errorMessage # ""
  /\ fetchCache[ShowsUrl] = "rejected"

\* the user opens show `id`, from the show select or from its card
OpenShowEvent(id) == ShowSelectDidChange(ToString(id)) \/ ShowCardActivated(id)

\* C12: openShow(id) sets selectedShowId = id, view = episodes,
\* selectedEpisodeId = '' and episodeSearchText = ''.  With id's episodes
\* cached it makes no request and leaves status alone, fills the episode
\* select with id's episodes and renders.  Otherwise it sets status =
\* loading, shows the status and waits for the (single) request of id's
\* episodes; when resumed it stores them under id, sets status = loaded,
\* fills the episode select and renders (id's episodes when id is still the
\* show displayed).
C12_OpenShowTransition ==
  [][\A id \in ShowIds :
       /\ OpenShowEvent(id) =>
            /\ state'.selectedShowId = ToString(id)
            /\ state'.currentView = "episodes"
            /\ state'.selectedEpisodeId = ""
            /\ state'.episodeSearchText = <<>>
            /\ state'.episodesByShowId = state.episodesByShowId
            /\ IF ToString(id) \in DOMAIN state.episodesByShowId
               THEN /\ transportCalls' = transportCalls
                    /\ fetchCache' = fetchCache
                    /\ waiters' = waiters /\ microtasks' = microtasks
                    /\ state'.status = state.status
                    /\ dom'.episodeSelectOptions =
                         OptionValues(state.episodesByShowId[ToString(id)])
                    /\ dom'.episodeSelectValue = ""
                    /\ state.status = "loaded" =>
                         /\ dom'.root.kind = "episodes"
                         /\ dom'.root.list = Ids(state.episodesByShowId[ToString(id)])
               ELSE /\ state'.status = "loading"
                    /\ dom'.root.kind = "status" /\ dom'.root.text = "Loading..."
                    /\ EpisodesUrl(id) \in DOMAIN fetchCache'
                    /\ transportCalls'[EpisodesUrl(id)] = 1
                    /\ Len(waiters') + Len(microtasks') = Len(waiters) + 1
       /\ (OpenShowResumes /\ Head(microtasks).id = id) =>
            /\ ToString(id) \in DOMAIN state'.episodesByShowId
            /\ state'.episodesByShowId[ToString(id)] = EpisodesPayload(id)
            /\ state'.status = "loaded"
            /\ (state.selectedShowId = ToString(id) /\ state.currentView = "episodes") =>
                 /\ dom'.episodeSelectOptions = OptionValues(EpisodesPayload(id))
                 /\ dom'.root.kind = "episodes"]_vars

\* show 2 was opened, fetched and is displayed with its one episode
C12_Witness ==
  /\ state.status = "loaded" /\ state.currentView = "episodes"
  /\ state.selectedShowId = "2"
  /\ "2" \in DOMAIN state.episodesByShowId
  /\ dom.episodeSelectOptions = <<"", "21">>
  /\ dom.root.kind = "episodes" /\ dom.root.list = <<21>>
  /\ transportCalls[EpisodesUrl(2)] = 1

\* C13: back navigation sets view = shows and changes nothing else of the
\* state: shows, the episode cache, the selected show, both search texts and
\* status stay, and no request is made or dropped; the show left stays
\* cached, so opening it again makes no transport call.
C13_BackOnlyChangesView ==
  [][/\ BackToShows =>
          /\ state'.currentView = "shows"
          /\ \A f \in (DOMAIN state) \ {"currentView"} : state'[f] = state[f]
          /\ fetchCache' = fetchCache
          /\ transportCalls' = transportCalls
          /\ waiters' = waiters
     /\ \A id \in ShowIds :
          (OpenShowEvent(id) /\ ToString(id) \in DOMAIN state.episodesByShowId) =>
             transportCalls' = transportCalls]_vars

\* the episodes of show 1 were displayed, then the user went back: the
\* shows are listed and show 1 is still selected and cached
C13_Witness ==
  /\ state.status = "loaded" /\ state.currentView = "shows"
  /\ state.selectedShowId = "1"
  /\ "1" \in DOMAIN state.episodesByShowId
  /\ transportCalls[EpisodesUrl(1)] = 1
  /\ dom.searchResults # ""
  /\ dom.root.kind = "shows"

\* C14: a navigation (back, or opening another show) while an episode
\* request is in flight does not abort it: the request and the handlers
\* waiting for it stay; once the request has succeeded the episodes are
\* eventually stored in the cache; and the resumed openShow leaves the view
\* as the later navigation set it.
C14_NoCancellation ==
  /\ [][(BackToShows \/ \E id \in ShowIds : OpenShowEvent(id)) =>
          /\ \A url \in DOMAIN fetchCache : fetchCache'[url] = fetchCache[url]
          /\ Len(waiters') >= Len(waiters)
          /\ SubSeq(waiters', 1, Len(waiters)) = waiters]_vars
  /\ [][OpenShowResumes =>
          /\ state'.currentView = state.currentView
          /\ ToString(Head(microtasks).id) \in DOMAIN state'.episodesByShowId]_vars
  /\ \A id \in ShowIds :
       (EpisodesUrl(id) \in DOMAIN fetchCache /\ fetchCache[EpisodesUrl(id)] = "resolved")
         ~> (ToString(id) \in DOMAIN state.episodesByShowId)

\* the user went back while the only episode request was in flight: the
\* episodes are cached, the shows are listed and the episodes view was
\* never drawn
C14_Witness ==
  /\ state.status = "loaded" /\ state.currentView = "shows"
  /\ state.selectedShowId # ""
  /\ state.selectedShowId \in DOMAIN state.episodesByShowId
  /\ dom.root.kind = "shows"
  /\ dom.searchResults = ""

\* the single status message for a state that is loading or in error
StatusMessage(s) ==
  RootOf("status",
         IF s.status = "loading" THEN "Loading..."
         ELSE IF s.errorMessage # "" THEN s.errorMessage
         ELSE "An error occurred while loading episodes.",
         <<>>, <<>>)

\* a handler that does nothing to the document but call render
RenderingHandler ==
  \/ BackToShows
  \/ \E value \in ShowSearchTexts : ShowSearchDidChange(value)
  \/ \E value \in EpisodeSearchTexts : episodeSearchDidChange(value)
  \/ \E value \in EpisodeOptionValues : episodeSelectionDidChange(value)

\* C15: with status loading or error, render only puts the status message
\* into the root: no listing, no toolbar switch, no select re-population and
\* no count text, whatever the view and the search texts are.
C15_RenderShortCircuit ==
  /\ [](state.status \in {"loading", "error"} =>
          render(state, dom) = [dom EXCEPT !.root = StatusMessage(state)])
  /\ [][(RenderingHandler /\ state'.status \in {"loading", "error"}) =>
          /\ dom'.root = StatusMessage(state')
          /\ dom'.showsCount = dom.showsCount
          /\ dom'.searchResults = dom.searchResults
          /\ dom'.showSelectOptions = dom.showSelectOptions
          /\ dom'.episodeSelectOptions = dom.episodeSelectOptions
          /\ dom'.showsToolbarHidden = dom.showsToolbarHidden
          /\ dom'.episodesToolbarHidden = dom.episodesToolbarHidden]_vars

\* the back handler has rendered while an episode request was loading
C15_Witness ==
  /\ state.status = "loading"
  /\ state.currentView = "shows"
  /\ state.shows # <<>>
  /\ dom.root = StatusMessage(state)

\* what is visible is the projection of the state and the cache
Synchronized(s, d) ==
  /\ d.showsToolbarHidden = (s.currentView # "shows")
  /\ d.episodesToolbarHidden = (s.currentView # "episodes")
  /\ s.status \in {"loading", "error"} => d.root = StatusMessage(s)
  /\ (s.status = "loaded" /\ s.currentView = "shows") =>
       /\ d.root.kind = "shows"
       /\ d.root.list = Ids(FilterShows(s.shows, s.showSearchText))
       /\ d.showsCount = CountLabel(Len(d.root.list))
       /\ d.showSearchInput = s.showSearchText
  /\ (s.status = "loaded" /\ s.currentView = "episodes") =>
       /\ d.root.kind = "episodes"
       /\ d.root.list = Ids(FilterEpisodes(CachedEpisodes(s, s.selectedShowId),
                                           s.episodeSearchText, s.selectedEpisodeId))
       /\ d.episodeSelectOptions = OptionValues(CachedEpisodes(s, s.selectedShowId))
       /\ d.episodeSelectValue = SelectValue(d.episodeSelectOptions, s.selectedEpisodeId)
       /\ d.episodeSearchInput = s.episodeSearchText

\* a step of a handler that ends with its call of render
EndsWithRender ==
  \/ RenderingHandler
  \/ SetupResumes
  \/ OpenShowResumes
  \/ \E id \in ShowIds :
       OpenShowEvent(id) /\ ToString(id) \in DOMAIN state.episodesByShowId

\* C16 as claimed: after every handler's render everything visible (toolbar,
\* listing, episode select, status text, count text) is the projection of
\* the current state and cache, also while status = loading.
C16_FullResync ==
  [][EndsWithRender => Synchronized(state', dom')]_vars

\* C17: rendering twice in a row with no state change in between shows the
\* same document as rendering once.
C17_RenderIdempotent ==
  render(state, render(state, dom)) = render(state, dom)

\* a single selected episode is displayed: the listing, the select and the
\* count text have been drawn
C17_Witness ==
  /\ state.status = "loaded" /\ state.currentView = "episodes"
  /\ state.selectedEpisodeId = "12"
  /\ dom.root.kind = "episodes" /\ dom.root.list = <<12>>
  /\ dom = render(state, dom)

\* the search text as the filters use it: lower-cased and trimmed
Folded(text) == trim(toLowerCase(text))

\* C18: the episodes displayed are (1) with a selected episode id, exactly
\* the episodes with that id (none when the id matches none), whatever the
\* search text; (2) otherwise, with a non-empty folded search text, exactly
\* the episodes whose lower-cased name or plain-text summary contains it;
\* (3) otherwise all episodes; always in the order of the list.
C18_EpisodeFilter ==
  (state.status = "loaded" /\ state.currentView = "episodes") =>
    LET episodes == CachedEpisodes(state, state.selectedShowId)
        shown(e) ==
          IF state.selectedEpisodeId # ""
          THEN ToString(e.id) = state.selectedEpisodeId
          ELSE \/ Folded(state.episodeSearchText) = <<>>
               \/ includes(toLowerCase(e.name), Folded(state.episodeSearchText))
               \/ includes(toLowerCase(extractText(e.summary)),
                           Folded(state.episodeSearchText))
    IN  /\ dom.root.kind = "episodes"
        /\ dom.root.list = Ids(SelectSeq(episodes, shown))
        /\ dom.searchResults = "Displaying " \o ToString(Len(dom.root.list))
                               \o " of " \o ToString(Len(episodes)) \o " episodes"

\* a selected id that matches no episode, with a search text that would
\* match: nothing is listed
C18_Witness ==
  /\ state.status = "loaded" /\ state.currentView = "episodes"
  /\ state.selectedEpisodeId = "99"
  /\ state.episodeSearchText = <<"P","i"," ">>
  /\ Len(CachedEpisodes(state, state.selectedShowId)) = 2
  /\ dom.root.kind = "episodes" /\ dom.root.list = <<>>

\* C19: with an empty folded search text the shows displayed are the whole
\* list in its order; otherwise exactly the shows whose lower-cased name,
\* plain-text summary or space-joined genres contains the folded text, in
\* the order of the list (none when none matches).
C19_ShowFilter ==
  (state.status = "loaded" /\ state.currentView = "shows") =>
    LET text == Folded(state.showSearchText)
        shown(show) ==
          \/ includes(toLowerCase(show.name), text)
          \/ includes(toLowerCase(extractText(show.summary)), text)
          \/ includes(toLowerCase(join(show.genres)), text)
    IN  /\ dom.root.kind = "shows"
        /\ text = <<>> => dom.root.list = Ids(state.shows)
        /\ text # <<>> => dom.root.list = Ids(SelectSeq(state.shows, shown))

\* "i f" only occurs in the space-joined genres "sci fi" of show 2
C19_Witness ==
  /\ state.status = "loaded" /\ state.currentView = "shows"
  /\ state.showSearchText = <<"i"," ","f">>
  /\ Len(state.shows) = 3
  /\ dom.root.kind = "shows" /\ dom.root.list = <<2>>

NameKey(name) == [k \in 1..Len(name) |-> Rank(Lower(name[k]))]

LexLess(a, b) ==
  \E k \in 1..Len(b) :
     /\ \A m \in 1..(k - 1) : m <= Len(a) /\ a[m] = b[m]
     /\ \/ k = Len(a) + 1
        \/ k <= Len(a) /\ a[k] < b[k]

IndexIn(data, x) == CHOOSE i \in 1..Len(data) : data[i] = x

StableSorted(data, sorted) ==
  /\ Len(sorted) = Len(data)
  /\ OptionSet(sorted) = OptionSet(data)
  /\ \A i, j \in 1..Len(sorted) :
       i < j =>
         \/ LexLess(NameKey(sorted[i].name), NameKey(sorted[j].name))
         \/ /\ NameKey(sorted[i].name) = NameKey(sorted[j].name)
            /\ IndexIn(data, sorted[i]) < IndexIn(data, sorted[j])

\* C20: after a successful startup state.shows is a permutation of the
\* fetched shows, ordered by name without regard to case, shows whose names
\* compare equal staying in the order in which they were fetched.
C20_ShowOrdering ==
  [][PureSetupResumes => StableSorted(Head(microtasks).data, state'.shows)]_vars

\* alpha, Beta, Zeta: the stored order of the shows named Zeta, alpha, Beta
C20_Witness ==
  /\ state.status = "loaded"
  /\ microtasks = <<>>
  /\ Ids(state.shows) = <<2, 3, 1>>
  /\ dom.showSelectOptions = <<"", "2", "3", "1">>

\* C21: the shows collection is requested at startup, before anything is
\* displayed or any user event is handled, and the transport call for it is
\* issued at most once: only setup issues it, and no search, openShow,
\* selection or back event issues another.
C21_ShowsFetchedOnce ==
  /\ [](transportCalls[ShowsUrl] <= 1)
  /\ [](started => transportCalls[ShowsUrl] = 1 /\ ShowsUrl \in DOMAIN fetchCache)
  /\ [](state.status # "idle" => transportCalls[ShowsUrl] = 1)
  /\ [][Setup => (transportCalls[ShowsUrl] = 0 /\ transportCalls'[ShowsUrl] = 1)]_vars
  /\ [][~Setup => transportCalls'[ShowsUrl] = transportCalls[ShowsUrl]]_vars

\* after a search, two opened shows, an episode pick and back navigation the
\* shows have still been requested once
C21_Witness ==
  /\ transportCalls[ShowsUrl] = 1
  /\ state.status = "loaded" /\ state.currentView = "shows"
  /\ state.showSearchText # <<>>
  /\ state.selectedEpisodeId # ""
  /\ DOMAIN state.episodesByShowId = {"1", "2"}

\* the shows whose episodes were ever asked for
OpenedShows == {ToString(id) : id \in {i \in ShowIds : EpisodesUrl(i) \in DOMAIN fetchCache}}

\* C22: in every reachable state view = episodes implies that
\* selectedShowId is non-empty and is the id of a show that was opened; the
\* view only becomes episodes by opening a show.
C22_EpisodesViewHasShow ==
  /\ [](state.currentView = "episodes" =>
          /\ state.selectedShowId # ""
          /\ state.selectedShowId \in OpenedShows)
  /\ [][(state.currentView # "episodes" /\ state'.currentView = "episodes") =>
          \E id \in ShowIds :
             OpenShowEvent(id) /\ state'.selectedShowId = ToString(id)]_vars

\* show 1 is displayed in the episodes view, both shows having been opened
C22_Witness ==
  /\ state.currentView = "episodes"
  /\ state.status = "loaded"
  /\ state.selectedShowId = "1"
  /\ OpenedShows = {"1", "2"}
  /\ dom.root.kind = "episodes"
  /\ ~dom.episodesToolbarHidden

\* C23 as claimed: status = loading holds for as long as the episode request
\* of the currently selected show is pending; in every reachable state with
\* status = loaded and view = episodes the episodes of selectedShowId are in
\* the cache, also when two openShow calls overlap.
C23_LoadedImpliesCached ==
  /\ (/\ state.currentView = "episodes"
      /\ \E id \in ShowIds :
            /\ state.selectedShowId = ToString(id)
            /\ EpisodesUrl(id) \in DOMAIN fetchCache
            /\ fetchCache[EpisodesUrl(id)] = "pending") => state.status = "loading"
  /\ (state.status = "loaded" /\ state.currentView = "episodes") =>
        state.selectedShowId \in DOMAIN state.episodesByShowId

\* C24 as claimed: every transport call completing, a state with
\* status = loading is always followed by one with status loaded or error.
C24_LoadingEnds ==
  (state.status = "loading") ~> (state.status \in {"loaded", "error"})

\* the episodes of the selected show, as far as they are known
SelectedShowEpisodeIds ==
  {ToString(e) : e \in OptionSet(Ids(CachedEpisodes(state, state.selectedShowId)))}

\* C25 as claimed: in every reachable state a non-empty selectedEpisodeId is
\* the id of an episode of the currently selected show, the user picking
\* only options that the episode select holds.
C25_SelectedEpisodeOfShow ==
  state.selectedEpisodeId # "" => state.selectedEpisodeId \in SelectedShowEpisodeIds

====
